---- MODULE Spec2Model ----
(***************************************************************************)
(* Two independent programs of the repository, each with its own           *)
(* specification over its own variables:                                   *)
(*                                                                         *)
(*   SyncSpec  run_sample of Face_gallery_sync.py: one run of the blob ->  *)
(*             local folder mirror, with the remote store and the local    *)
(*             file system as environment.                                 *)
(*   PipeSpec  DeepSpeechPipeline of deep_speech_pipeline.py: construction,*)
(*             activate_model and recognize_audio calls on one instance.   *)
(***************************************************************************)
EXTENDS Integers, Sequences, FiniteSets, TLC

None == "None"

\* ------------------------------------------------------------------------
\* Bounds of the model
\* ------------------------------------------------------------------------

\* Containers in the storage account.
NumContainers == 2
\* Blobs the remote store may delete while the run is in progress.
MaxDeletes == 1

\* ------------------------------------------------------------------------
\* Gallery sync: variables
\* ------------------------------------------------------------------------
VARIABLES
    remote,      \* remote[c] : blob name -> content, the blobs of container c
    local,       \* local file system: path -> [kind, data]
    local0,      \* history: the local file system when the run started
    pc,          \* position of run_sample
    containers,  \* all_containers iterator: containers still to come
    container,   \* loop variable of line 22
    generator,   \* list_blobs iterator: blob names still to come
    blob,        \* loop variable of line 27
    stream,      \* bytes returned by download_blob().readall()
    error,       \* exception that ended the run ("None" if none)
    result,      \* "running", "returned" (normally) or "raised" (propagated)
    visited,     \* history: one record per blob reached by line 27
    requested,   \* history: <<container, blob>> for each download_blob call
    skipped,     \* history: <<container, blob>> for each "No blob found." notice
    deleted,     \* history: number of blobs the store deleted during the run
    faulted      \* history: an I/O fault of the environment hit the run

syncVars == <<remote, local, local0, pc, containers, container, generator, blob,
              stream, error, result, visited, requested, skipped, deleted, faulted>>

\* ------------------------------------------------------------------------
\* Speech pipeline: variables
\* ------------------------------------------------------------------------
VARIABLES
    ppc,            \* position of the caller / of the running method
    debug,          \* __debug__: assert statements are executed
    supported,      \* layers ie.query_network reports for the constructor's device
    default_device, \* self.default_device (the constructor's device argument)
    net,            \* self.net
    exec_net,       \* self.exec_net
    loadCalls,      \* history: number of ie.load_network calls
    queryCalls,     \* history: number of ie.query_network calls
    firstBound,     \* history: the binding made by the first load_network call
    lastRequested,  \* history: device named by the last activate_model call
    phases,         \* history: lifetime events of the pipeline, in order
    calls,          \* number of recognize_audio calls started
    audio,          \* arguments of the running recognize_audio call
    nframes,        \* history: number of frames extract_mfcc returned
    mfcc_features,  \* local of extract_per_frame_probs
    num_strides,    \* local of extract_per_frame_probs
    i,              \* loop variable of line 160
    state_hc,       \* locals (state_h, state_c)
    probs,          \* local list probs, then the concatenated matrix
    inferLog,       \* history: the exec_net.infer calls of the running call
    decoderCalls,   \* history: decoder.decode calls of the running call
    transcription,  \* value returned by the running recognize_audio call
    perror          \* exception raised by the constructor or the running call

pipeVars == <<ppc, debug, supported, default_device, net, exec_net, loadCalls,
              queryCalls, firstBound, lastRequested, phases, calls, audio,
              nframes, mfcc_features, num_strides, i, state_hc, probs, inferLog,
              decoderCalls, transcription, perror>>

vars == <<syncVars, pipeVars>>

\* ------------------------------------------------------------------------
\* Gallery sync: data
\* ------------------------------------------------------------------------

\* Blob names as path components: "a", "d" and "d/e" (a name with a separator,
\* whose first component is also a blob name).  The store lists the blobs of a
\* container in this (lexicographic) order.
BlobNames == << <<"a">>, <<"d">>, <<"d", "e">> >>

Names == {BlobNames[k] : k \in 1..Len(BlobNames)}

Containers == 1..NumContainers

\* Bytes of the blob named b in container c: different for every blob.
Content(c, b) == <<"bytes", c, b>>

Dir == [kind |-> "dir", data |-> <<>>]

File(d) == [kind |-> "file", data |-> d]

\* Content of files that were in the mirror before the run.
Old == <<"old">>
\* Content of a file that was opened ('wb+' truncates) and not yet written.
Empty == <<"empty">>
\* Content of a file whose write was cut short.
Partial == <<"partial">>

\* os.path.join(os.path.expanduser("~"), 'Face_Gallery')
LocalPath == <<"Face_Gallery">>

\* os.path.join(local_path, blob.name)
LocalFilePathForBlob(b) == LocalPath \o b

Parent(p) == SubSeq(p, 1, Len(p) - 1)

\* os.path.exists
PathExists(fs, p) == p \in DOMAIN fs

Put(fs, p, e) == [q \in DOMAIN fs \cup {p} |-> IF q = p THEN e ELSE fs[q]]

\* os.makedirs(local_path): the home directory exists.
MakeDirs(fs, p) == Put(fs, p, Dir)

\* open(path, 'wb+') succeeds iff the parent is an existing directory and the
\* path is not a directory; it creates or truncates the file.
CanOpen(fs, p) ==
    /\ Parent(p) \in DOMAIN fs
    /\ fs[Parent(p)].kind = "dir"
    /\ (p \in DOMAIN fs => fs[p].kind = "file")

OpenWb(fs, p) == Put(fs, p, File(Empty))

\* file.write(stream); file.close()
WriteClose(fs, p, bytes) == Put(fs, p, File(bytes))

\* container_id.list_blobs(): the blobs of the container, in listing order.
ListBlobs(store, c) ==
    SelectSeq(BlobNames, LAMBDA b : b \in DOMAIN store[c])

\* blob_service_client.list_containers(include_metadata=True)
ListContainers == [k \in 1..NumContainers |-> k]

\* Faulty variant: the existence test is dropped.
ShouldDownload_always(fs, p) == TRUE

\* Lines 35-38: if os.path.exists(local_file_path_for_blob): ... else: download
ShouldDownload(fs, p) == ~PathExists(fs, p)

\* Faulty variant: no inner handler.
InnerExcept_none(exc) == FALSE

\* Lines 47-48: except ResourceNotFoundError: print("No blob found.")
InnerExcept(exc) == exc = "ResourceNotFoundError"

\* Exceptions of the environment that derive from Exception.
IOFaults == {"OSError", "HttpResponseError"}

ExceptionSubclasses ==
    IOFaults \cup {"ResourceNotFoundError", "FileNotFoundError"}

\* Faulty variant: the outer handler catches OSError only.
OuterExcept_os(exc) == exc = "OSError"

\* Lines 49-50: except Exception as e: print(e)
OuterExcept(exc) == exc \in ExceptionSubclasses

\* ------------------------------------------------------------------------
\* Gallery sync: initial states
\* ------------------------------------------------------------------------

\* Local file systems a run can start from: the mirror directory absent, or
\* present with any of file "a", file or directory "d", and file "d/e" in it.
WellFormed(fs) ==
    \A p \in DOMAIN fs :
        p = LocalPath \/ (Parent(p) \in DOMAIN fs /\ fs[Parent(p)].kind = "dir")

InitialLocals ==
    LET paths == {LocalPath, LocalPath \o <<"a">>, LocalPath \o <<"d">>,
                  LocalPath \o <<"d", "e">>}
        kinds(p) == IF p = LocalPath THEN {Dir}
                    ELSE IF p = LocalPath \o <<"d">> THEN {Dir, File(Old)}
                    ELSE {File(Old)}
    IN  {fs \in UNION {[S -> {Dir, File(Old)}] : S \in SUBSET paths} :
            /\ WellFormed(fs)
            /\ \A p \in DOMAIN fs : fs[p] \in kinds(p)}

InitialRemotes ==
    {[c \in Containers |-> [b \in S[c] |-> Content(c, b)]] :
        S \in [Containers -> SUBSET Names]}

SyncStart ==
    /\ remote \in InitialRemotes
    /\ local \in InitialLocals
    /\ local0 = local
    /\ pc = "connect"
    /\ containers = <<>>
    /\ container = None
    /\ generator = <<>>
    /\ blob = None
    /\ stream = None
    /\ error = None
    /\ result = "running"
    /\ visited = {}
    /\ requested = {}
    /\ skipped = {}
    /\ deleted = 0
    /\ faulted = FALSE

\* ------------------------------------------------------------------------
\* Gallery sync: run_sample
\* ------------------------------------------------------------------------

\* An exception exc raised at the current position; inTry says whether the
\* position is inside the try of lines 42-46.
Raise(exc, inTry) ==
    IF inTry /\ InnerExcept(exc)
    THEN /\ pc' = "for_blob"
         /\ skipped' = skipped \cup {<<container, blob>>}
         /\ UNCHANGED <<error, result>>
    ELSE /\ pc' = "done"
         /\ error' = exc
         /\ result' = IF OuterExcept(exc) THEN "returned" ELSE "raised"
         /\ UNCHANGED skipped

\* Lines 11-14: the client and the (lazy) container listing.
Connect ==
    /\ pc = "connect"
    /\ containers' = ListContainers
    /\ pc' = "mkdir"
    /\ UNCHANGED <<remote, local, local0, container, generator, blob, stream,
                   error, result, visited, requested, deleted, faulted, skipped, pipeVars>>

\* Lines 16-19.
MakeLocalPath ==
    /\ pc = "mkdir"
    /\ local' = IF ~PathExists(local, LocalPath)
                THEN MakeDirs(local, LocalPath) ELSE local
    /\ pc' = "for_container"
    /\ UNCHANGED <<remote, local0, containers, container, generator, blob,
                   stream, error, result, visited, requested, deleted, faulted, skipped, pipeVars>>

\* Lines 22-26: the next container and its blob listing, or the end of the run.
NextContainer ==
    /\ pc = "for_container"
    /\ IF containers = <<>>
       THEN /\ pc' = "done"
            /\ result' = "returned"
            /\ UNCHANGED <<containers, container, generator>>
       ELSE /\ container' = Head(containers)
            /\ containers' = Tail(containers)
            /\ generator' = ListBlobs(remote, Head(containers))
            /\ pc' = "for_blob"
            /\ UNCHANGED result
    /\ UNCHANGED <<remote, local, local0, blob, stream, error, visited,
                   requested, deleted, faulted, skipped, pipeVars>>

\* Lines 27-38: the next blob, its local path and the existence test.
NextBlob ==
    /\ pc = "for_blob"
    /\ IF generator = <<>>
       THEN /\ pc' = "for_container"
            /\ UNCHANGED <<generator, blob, visited>>
       ELSE LET b == Head(generator)
                p == LocalFilePathForBlob(b)
            IN  /\ blob' = b
                /\ generator' = Tail(generator)
                /\ visited' = visited \cup
                       {[container |-> container, blob |-> b,
                         existed |-> PathExists(local, p),
                         entry |-> IF PathExists(local, p) THEN local[p] ELSE None]}
                /\ pc' = IF ShouldDownload(local, p) THEN "download" ELSE "for_blob"
    /\ UNCHANGED <<remote, local, local0, containers, container, stream, error,
                   result, requested, deleted, faulted, skipped, pipeVars>>

\* Line 43: blob_client.download_blob().readall()
Download ==
    /\ pc = "download"
    /\ requested' = requested \cup {<<container, blob>>}
    /\ IF blob \in DOMAIN remote[container]
       THEN /\ stream' = remote[container][blob]
            /\ pc' = "open"
            /\ UNCHANGED <<error, result, skipped>>
       ELSE /\ Raise("ResourceNotFoundError", TRUE)
            /\ UNCHANGED stream
    /\ UNCHANGED <<remote, local, local0, containers, container, generator, blob,
                   visited, deleted, faulted, pipeVars>>

\* Line 44: open(local_file_path_for_blob, 'wb+')
OpenFile ==
    /\ pc = "open"
    /\ LET p == LocalFilePathForBlob(blob)
       IN  IF CanOpen(local, p)
           THEN /\ local' = OpenWb(local, p)
                /\ pc' = "write"
                /\ UNCHANGED <<error, result, skipped>>
           ELSE /\ Raise("FileNotFoundError", TRUE)
                /\ UNCHANGED local
    /\ UNCHANGED <<remote, local0, containers, container, generator, blob, stream,
                   visited, requested, deleted, faulted, pipeVars>>

\* Lines 45-46: file.write(stream); file.close()
WriteFile ==
    /\ pc = "write"
    /\ local' = WriteClose(local, LocalFilePathForBlob(blob), stream)
    /\ pc' = "for_blob"
    /\ UNCHANGED <<remote, local0, containers, container, generator, blob, stream,
                   error, result, visited, requested, deleted, faulted, skipped, pipeVars>>

\* Environment: an I/O error (network, disk) at any call of the run.  At the
\* write the file may be left empty or partly written.
Fault ==
    /\ pc \in {"connect", "mkdir", "for_container", "for_blob", "download",
               "open", "write"}
    /\ \E exc \in IOFaults : Raise(exc, pc \in {"download", "open", "write"})
    /\ faulted' = TRUE
    /\ IF pc = "write"
       THEN \E d \in {Empty, Partial} :
                local' = Put(local, LocalFilePathForBlob(blob), File(d))
       ELSE UNCHANGED local
    /\ requested' = IF pc = "download"
                    THEN requested \cup {<<container, blob>>} ELSE requested
    /\ UNCHANGED <<remote, local0, containers, container, generator, blob, stream,
                   visited, deleted, pipeVars>>

\* Environment: the store deletes a blob while the run is in progress.
BlobDeleted ==
    /\ pc # "done"
    /\ deleted < MaxDeletes
    /\ \E c \in Containers : \E b \in DOMAIN remote[c] :
           remote' = [remote EXCEPT ![c] =
                         [x \in DOMAIN remote[c] \ {b} |-> remote[c][x]]]
    /\ deleted' = deleted + 1
    /\ UNCHANGED <<local, local0, pc, containers, container, generator, blob,
                   stream, error, result, visited, requested, faulted, skipped, pipeVars>>

SyncNext ==
    \/ Connect
    \/ MakeLocalPath
    \/ NextContainer
    \/ NextBlob
    \/ Download
    \/ OpenFile
    \/ WriteFile
    \/ Fault
    \/ BlobDeleted


\* ------------------------------------------------------------------------
\* Speech pipeline: bounds and data
\* ------------------------------------------------------------------------

\* Most feature frames extract_mfcc returns for one utterance.
MaxFrames == 33
\* recognize_audio calls made on the pipeline.
MaxCalls == 2

\* self.num_context_frames, self.num_batch_frames, self.model_sample_rate
num_context_frames == 19

num_batch_frames == 16

model_sample_rate == 16000

Devices == {"CPU", "GPU"}

\* self.net.layers.keys()
Layers == {"lstm", "softmax"}

\* What ie.query_network may report for a device.
SupportedSets == {Layers, {"softmax"}}

\* Arguments of recognize_audio: the rates around the 10% limits, and the
\* shapes (n,), (n, 1) and (n, 2).
SamplingRates == {14399, 14400, 16000, 17600, 17601, 44100}

Shapes == {<<8>>, <<8, 1>>, <<8, 2>>}

NoAudio == [rate |-> 0, shape |-> <<>>]

\* np.zeros((1, 2048)) for state_h and state_c
ZeroState == 0

\* Recurrent states an inference call may return (never all zeros here).
StateVals == {1, 2}

\* self.exec_net = None
NotBound == [id |-> 0, device |-> None]

NoError == [type |-> None, text |-> ""]

\* Lines 103-107.
UnsupportedLayersError(device, layers) ==
    [type |-> "RuntimeError",
     text |-> "Following layers are not supported by the plugin for specified device",
     device |-> device, layers |-> layers]

\* Line 125: "... {} kHz mono".format(self.model_sample_rate/1e3)
AudioError ==
    [type |-> "ValueError", text |-> "Input audio file should be {} kHz mono",
     khz |-> model_sample_rate \div 1000]

\* Line 139.
ActivationError ==
    [type |-> "AssertionError",
     text |-> "Need to call mds.activate(device) method before mds.stt(...)"]

\* np.concatenate of an empty list (line 183).
ConcatenateError ==
    [type |-> "ValueError", text |-> "need at least one array to concatenate"]

\* self.exec_net.infer with self.exec_net = None (line 175).
NoneTypeError ==
    [type |-> "AttributeError", text |-> "'NoneType' object has no attribute 'infer'"]

\* An error of the inference backend, propagated unmodified.
BackendError == [type |-> "RuntimeError", text |-> "infer"]

Abs(x) == IF x < 0 THEN -x ELSE x

Min(a, b) == IF a < b THEN a ELSE b

\* Line 101: [l for l in self.net.layers.keys() if l not in device_supported_layers]
NetUnsupportedLayers(device_supported_layers) ==
    {l \in Layers : l \notin device_supported_layers}

\* Faulty variant: unsupported layers are not reported.
CheckFails_never(unsupported) == FALSE

\* Line 102: if len(net_unsupported_layers) > 0
CheckFails(unsupported) == Cardinality(unsupported) > 0

\* Faulty variant: activate_model always loads the network.
AlreadyActive_never == FALSE

\* Line 110: if self.exec_net is not None: return
AlreadyActive == exec_net # NotBound

\* Faulty variant: a rate off by exactly a tenth is rejected too.
InvalidAudio_strict(rate, shape) ==
    \/ Abs(rate - model_sample_rate) * 10 >= model_sample_rate
    \/ (shape \o <<1>>)[2] # 1

\* Line 124: the rate is off by more than a tenth of the model's rate
\* (16000 * 0.1 is exactly 1600.0), or the shape's second entry, 1 when the
\* shape has only one, is not 1.
InvalidAudio(rate, shape) ==
    \/ Abs(rate - model_sample_rate) * 10 > model_sample_rate
    \/ (shape \o <<1>>)[2] # 1

\* Faulty variant: the assertion tests self.net.
AssertPasses_net == net # None

\* Line 139: assert self.exec_net is not None
AssertPasses == exec_net # NotBound

\* Lines 141-142: num_context_frames // 2 zero frames on both sides.  Real
\* frames are numbered from 1; 0 is a zero frame.
PadFeatures(features) ==
    LET padding == [t \in 1..(num_context_frames \div 2) |-> 0]
    IN  padding \o features \o padding

\* Faulty variant: one stride short.
NumStrides_short(padded) == Len(padded) - num_context_frames

\* Line 144: len(mfcc_features) - self.num_context_frames + 1
NumStrides(padded) == Len(padded) - num_context_frames + 1

\* Lines 146-151: entry j (from 1) of the strided view.
Strided(padded, j) == SubSeq(padded, j, j + num_context_frames - 1)

\* Line 161: mfcc_features[i:i + self.num_batch_frames], i from 0.
Chunk(padded, strides, start) ==
    [m \in 1..Min(num_batch_frames, strides - start) |-> Strided(padded, start + m)]

\* Lines 163-173: np.pad of the last chunk with zero windows.
PadChunk(chunk) ==
    IF Len(chunk) < num_batch_frames
    THEN chunk \o [m \in 1..(num_batch_frames - Len(chunk)) |->
                      [t \in 1..num_context_frames |-> 0]]
    ELSE chunk

\* Lines 153-157.
InitialState(state) == IF state = None THEN ZeroState ELSE state

\* Faulty variant: the returned state is dropped.
ThreadState_drop(previous, returned) == previous

\* Lines 181-182: the state of the next step is the one just returned.
ThreadState(previous, returned) == returned

\* res['logits'].squeeze(1): one row per window of the chunk.  A row is named
\* by the frame its window is centred on (0 for a padding window).
Logits(chunk) ==
    [m \in 1..Len(chunk) |-> chunk[m][num_context_frames \div 2 + 1]]

\* Line 183: np.concatenate(probs)
RECURSIVE Concatenate(_)
Concatenate(arrays) ==
    IF arrays = <<>> THEN <<>> ELSE Head(arrays) \o Concatenate(Tail(arrays))

\* ------------------------------------------------------------------------
\* Speech pipeline: initial states
\* ------------------------------------------------------------------------

CallLocalsCleared ==
    /\ audio' = NoAudio
    /\ nframes' = -1
    /\ mfcc_features' = <<>>
    /\ num_strides' = 0
    /\ i' = 0
    /\ state_hc' = ZeroState
    /\ probs' = <<>>
    /\ inferLog' = <<>>
    /\ decoderCalls' = 0
    /\ transcription' = <<>>
    /\ perror' = NoError

PipeFields ==
    /\ net = None
    /\ exec_net = NotBound
    /\ loadCalls = 0
    /\ queryCalls = 0
    /\ firstBound = NotBound
    /\ lastRequested = None
    /\ phases = <<>>
    /\ calls = 0
    /\ audio = NoAudio
    /\ nframes = -1
    /\ mfcc_features = <<>>
    /\ num_strides = 0
    /\ i = 0
    /\ state_hc = ZeroState
    /\ probs = <<>>
    /\ inferLog = <<>>
    /\ decoderCalls = 0
    /\ transcription = <<>>
    /\ perror = NoError

\* Before DeepSpeechPipeline(...) is called, with any device argument.
PipeStart ==
    /\ ppc = "new"
    /\ debug \in BOOLEAN
    /\ supported \in SupportedSets
    /\ default_device \in Devices \cup {None}
    /\ PipeFields

\* The pipeline is not part of SyncSpec.
PipeOff ==
    /\ ppc = "off"
    /\ debug = TRUE
    /\ supported = Layers
    /\ default_device = None
    /\ PipeFields

\* run_sample is not part of PipeSpec.
SyncOff ==
    /\ remote = <<>>
    /\ local = <<>>
    /\ local0 = <<>>
    /\ pc = "off"
    /\ containers = <<>>
    /\ container = None
    /\ generator = <<>>
    /\ blob = None
    /\ stream = None
    /\ error = None
    /\ result = "off"
    /\ visited = {}
    /\ requested = {}
    /\ skipped = {}
    /\ deleted = 0
    /\ faulted = FALSE

\* ------------------------------------------------------------------------
\* Speech pipeline: __init__
\* ------------------------------------------------------------------------

callLocals == <<audio, nframes, mfcc_features, num_strides, i, state_hc, probs,
                inferLog, decoderCalls, transcription>>

\* Lines 43-61.
Construct ==
    /\ ppc = "new"
    /\ net' = None
    /\ exec_net' = NotBound
    /\ phases' = <<"Constructed">>
    /\ ppc' = "load_net"
    /\ UNCHANGED <<debug, supported, default_device, loadCalls, queryCalls,
                   firstBound, lastRequested, calls, perror,
                   callLocals, syncVars>>

\* Lines 82-95: _load_net up to the device test.
ReadNetwork ==
    /\ ppc = "load_net"
    /\ net' = "IENetwork"
    /\ phases' = Append(phases, "NetworkLoaded")
    /\ ppc' = IF default_device # None THEN "check_nodes" ELSE "decoder"
    /\ UNCHANGED <<debug, supported, default_device, exec_net, loadCalls,
                   queryCalls, firstBound, lastRequested, calls, perror, callLocals, syncVars>>

\* Lines 98-107: _check_ir_nodes.
CheckIrNodes ==
    /\ ppc = "check_nodes"
    /\ queryCalls' = queryCalls + 1
    /\ LET unsupported == NetUnsupportedLayers(supported)
       IN  IF CheckFails(unsupported)
           THEN /\ perror' = UnsupportedLayersError(default_device, unsupported)
                /\ ppc' = "ctor_failed"
                /\ UNCHANGED phases
           ELSE /\ phases' = Append(phases, "Validated")
                /\ ppc' = "decoder"
                /\ UNCHANGED perror
    /\ UNCHANGED <<debug, supported, default_device, net, exec_net, loadCalls,
                   firstBound, lastRequested, calls, callLocals,
                   syncVars>>

\* Lines 64-67: the decoder, and the test that decides on activation.
MakeDecoder ==
    /\ ppc = "decoder"
    /\ ppc' = IF default_device # None THEN "ctor_activate" ELSE "idle"
    /\ UNCHANGED <<debug, supported, default_device, net, exec_net, loadCalls,
                   queryCalls, firstBound, lastRequested, phases, calls,
                   perror, callLocals, syncVars>>

\* Lines 109-113: activate_model(device).
Activate(device) ==
    /\ lastRequested' = device
    /\ IF AlreadyActive
       THEN UNCHANGED <<exec_net, loadCalls, firstBound, phases>>
       ELSE LET binding == [id |-> loadCalls + 1, device |-> device]
            IN  /\ exec_net' = binding
                /\ loadCalls' = loadCalls + 1
                /\ firstBound' = IF loadCalls = 0 THEN binding ELSE firstBound
                /\ phases' = Append(phases, "Activated")

\* Line 68.
CtorActivate ==
    /\ ppc = "ctor_activate"
    /\ Activate(default_device)
    /\ ppc' = "idle"
    /\ UNCHANGED <<debug, supported, default_device, net, queryCalls, calls,
                   perror, callLocals, syncVars>>

\* A call of activate_model by the user of the constructed pipeline.
ActivateModel ==
    /\ ppc = "idle"
    /\ \E device \in Devices : Activate(device)
    /\ UNCHANGED <<ppc, debug, supported, default_device, net, queryCalls, calls,
                   perror, callLocals, syncVars>>

\* ------------------------------------------------------------------------
\* Speech pipeline: recognize_audio
\* ------------------------------------------------------------------------

pipeObject == <<debug, supported, default_device, net, exec_net, loadCalls,
                queryCalls, firstBound, lastRequested, phases>>

\* Line 115: a call of recognize_audio(audio, sampling_rate).
RecognizeAudio ==
    /\ ppc = "idle"
    /\ calls < MaxCalls
    /\ calls' = calls + 1
    /\ \E rate \in SamplingRates, shape \in Shapes :
           audio' = [rate |-> rate, shape |-> shape]
    /\ ppc' = "rec_mfcc"
    /\ UNCHANGED <<pipeObject, nframes, mfcc_features, num_strides, i, state_hc,
                   probs, inferLog, decoderCalls, transcription,
                   perror, syncVars>>

\* Lines 122-136: extract_mfcc.  The features are the work of audio_spectrogram
\* and mfcc: any number of frames, numbered from 1.
ExtractMfcc ==
    /\ ppc = "rec_mfcc"
    /\ IF InvalidAudio(audio.rate, audio.shape)
       THEN /\ perror' = AudioError
            /\ ppc' = "rec_end"
            /\ UNCHANGED <<nframes, mfcc_features>>
       ELSE /\ \E n \in 0..MaxFrames :
                   /\ nframes' = n
                   /\ mfcc_features' = [j \in 1..n |-> j]
            /\ ppc' = "rec_probs"
            /\ UNCHANGED perror
    /\ UNCHANGED <<pipeObject, calls, audio, num_strides, i, state_hc, probs,
                   inferLog, decoderCalls, transcription, syncVars>>

\* Lines 139-159: extract_per_frame_probs up to the loop.
ExtractPerFrameProbs ==
    /\ ppc = "rec_probs"
    /\ IF debug /\ ~AssertPasses
       THEN /\ perror' = ActivationError
            /\ ppc' = "rec_end"
            /\ UNCHANGED <<mfcc_features, num_strides, state_hc>>
       ELSE /\ mfcc_features' = PadFeatures(mfcc_features)
            /\ num_strides' = NumStrides(PadFeatures(mfcc_features))
            /\ state_hc' = InitialState(None)
            /\ ppc' = "rec_loop"
            /\ UNCHANGED perror
    /\ UNCHANGED <<pipeObject, calls, audio, nframes, i, probs, inferLog,
                   decoderCalls, transcription, syncVars>>

\* Lines 160-182: one iteration of the loop, the inference call returning.
InferBatch ==
    /\ ppc = "rec_loop"
    /\ i < num_strides
    /\ IF exec_net = NotBound
       THEN /\ perror' = NoneTypeError
            /\ ppc' = "rec_end"
            /\ UNCHANGED <<i, state_hc, probs, inferLog>>
       ELSE \E returned \in StateVals :
               LET chunk == PadChunk(Chunk(mfcc_features, num_strides, i))
               IN  /\ inferLog' = Append(inferLog,
                          [target |-> exec_net, state_in |-> state_hc,
                           chunk |-> chunk, state_out |-> returned])
                   /\ probs' = Append(probs, Logits(chunk))
                   /\ state_hc' = ThreadState(state_hc, returned)
                   /\ i' = i + num_batch_frames
                   /\ UNCHANGED <<ppc, perror>>
    /\ UNCHANGED <<pipeObject, calls, audio, nframes, mfcc_features, num_strides,
                   decoderCalls, transcription, syncVars>>

\* Line 175: the inference call raising; the error leaves recognize_audio.
InferFails ==
    /\ ppc = "rec_loop"
    /\ i < num_strides
    /\ exec_net # NotBound
    /\ inferLog' = Append(inferLog,
           [target |-> exec_net, state_in |-> state_hc,
            chunk |-> PadChunk(Chunk(mfcc_features, num_strides, i)),
            state_out |-> -1])
    /\ perror' = BackendError
    /\ ppc' = "rec_end"
    /\ UNCHANGED <<pipeObject, calls, audio, nframes, mfcc_features, num_strides,
                   i, state_hc, probs, decoderCalls, transcription, syncVars>>

\* Lines 183-186: the end of the loop and np.concatenate(probs).
ConcatenateProbs ==
    /\ ppc = "rec_loop"
    /\ i >= num_strides
    /\ IF probs = <<>>
       THEN /\ perror' = ConcatenateError
            /\ ppc' = "rec_end"
            /\ UNCHANGED probs
       ELSE /\ probs' = Concatenate(probs)
            /\ ppc' = "rec_decode"
            /\ UNCHANGED perror
    /\ UNCHANGED <<pipeObject, calls, audio, nframes, mfcc_features, num_strides,
                   i, state_hc, inferLog, decoderCalls,
                   transcription, syncVars>>

\* Lines 119-120 and 190-194: decode_probs.
DecodeProbs ==
    /\ ppc = "rec_decode"
    /\ decoderCalls' = decoderCalls + 1
    /\ transcription' = <<"hypotheses", Len(probs)>>
    /\ ppc' = "rec_end"
    /\ UNCHANGED <<pipeObject, calls, audio, nframes, mfcc_features, num_strides,
                   i, state_hc, probs, inferLog, perror, syncVars>>

\* recognize_audio has returned or raised; its locals are gone.
Return ==
    /\ ppc = "rec_end"
    /\ CallLocalsCleared
    /\ ppc' = "idle"
    /\ UNCHANGED <<pipeObject, calls, syncVars>>

PipeNext ==
    \/ Construct
    \/ ReadNetwork
    \/ CheckIrNodes
    \/ MakeDecoder
    \/ CtorActivate
    \/ ActivateModel
    \/ RecognizeAudio
    \/ ExtractMfcc
    \/ ExtractPerFrameProbs
    \/ InferBatch
    \/ InferFails
    \/ ConcatenateProbs
    \/ DecodeProbs
    \/ Return

\* ------------------------------------------------------------------------
\* Specifications
\* ------------------------------------------------------------------------

SyncInit == SyncStart /\ PipeOff

PipeInit == PipeStart /\ SyncOff

SyncSpec == SyncInit /\ [][SyncNext]_vars

PipeSpec == PipeInit /\ [][PipeNext]_vars

\* ------------------------------------------------------------------------
\* Gallery sync: properties (checked under SyncSpec)
\* ------------------------------------------------------------------------

\* C1: after a run during which the store stayed reachable and deleted
\* nothing, every remote blob whose local path did not exist when the run
\* started has a local file at that path holding exactly the blob's bytes.
C1_MissingBlobsMirrored ==
    (pc = "done" /\ ~faulted /\ deleted = 0) =>
        \A c \in Containers : \A b \in DOMAIN remote[c] :
            ~PathExists(local0, LocalFilePathForBlob(b)) =>
                /\ PathExists(local, LocalFilePathForBlob(b))
                /\ local[LocalFilePathForBlob(b)] = File(remote[c][b])

\* C2: run_sample never modifies a local file that already exists: whatever
\* was in the mirror when the run started is still there unchanged, and a
\* blob whose local path exists when it is visited is never requested from
\* the store, its path keeping what it held at the visit.
C2_ExistingFilesUntouched ==
    /\ \A p \in DOMAIN local0 : p \in DOMAIN local /\ local[p] = local0[p]
    /\ \A v \in visited :
           v.existed =>
               /\ <<v.container, v.blob>> \notin requested
               /\ local[LocalFilePathForBlob(v.blob)] = v.entry

\* C2 witness: a finished run that visited a blob still in the store whose
\* local file existed with other bytes than the blob's.
C2_Witness ==
    /\ pc = "done"
    /\ error = None
    /\ \E v \in visited :
           /\ v.existed
           /\ v.blob \in DOMAIN remote[v.container]
           /\ local[LocalFilePathForBlob(v.blob)].kind = "file"
           /\ local[LocalFilePathForBlob(v.blob)].data # remote[v.container][v.blob]

\* The step download_blob takes when the blob is no longer in the store.
NotFoundStep ==
    /\ pc = "download"
    /\ blob \notin DOMAIN remote[container]
    /\ pc' # "download"
    /\ ~faulted'

\* C3: a download that fails because the blob is gone leaves the local files
\* as they are and the run going: the loop moves on to the next blob with the
\* remaining blobs and containers still to come, and a run that ends without
\* an error has visited every blob still in the store and holds the bytes of
\* each one whose path was absent at its visit.
C3_NotFoundSkipped ==
    /\ [][NotFoundStep =>
             /\ local' = local
             /\ pc' = "for_blob"
             /\ error' = None
             /\ result' = "running"
             /\ generator' = generator
             /\ containers' = containers
             /\ skipped' = skipped \cup {<<container, blob>>}]_vars
    /\ []((pc = "done" /\ error = None) =>
             \A c \in Containers : \A b \in DOMAIN remote[c] :
                 \E v \in visited :
                     /\ v.container = c
                     /\ v.blob = b
                     /\ ~v.existed =>
                            local[LocalFilePathForBlob(b)] = File(remote[c][b]))

\* C3 witness: a run that skipped blob "a" of a container as not found, then
\* downloaded "d" of the same container and "a" of a later container.
C3_Witness ==
    /\ pc = "done"
    /\ error = None
    /\ \E c \in Containers, c2 \in Containers :
           /\ c2 > c
           /\ <<c, <<"a">>>> \in skipped
           /\ <<c, <<"d">>>> \in requested
           /\ <<c2, <<"a">>>> \in requested
           /\ local[LocalFilePathForBlob(<<"d">>)] = File(Content(c, <<"d">>))
           /\ local[LocalFilePathForBlob(<<"a">>)] = File(Content(c2, <<"a">>))

\* C4: an error other than blob-not-found ends the run where it is raised:
\* run_sample returns normally, nothing more is visited, every file keeps its
\* content (only the file being written may be left incomplete), and after
\* the return nothing is visited, requested or written.
C4_OtherErrorEndsRun ==
    [][/\ (error = None /\ error' # None) =>
              /\ error' # "ResourceNotFoundError"
              /\ pc' = "done"
              /\ result' = "returned"
              /\ visited' = visited
              /\ \A p \in DOMAIN local :
                     /\ p \in DOMAIN local'
                     /\ \/ local'[p] = local[p]
                        \/ pc = "write" /\ p = LocalFilePathForBlob(blob)
              /\ DOMAIN local' = DOMAIN local
       /\ pc = "done" =>
              /\ result = "returned"
              /\ UNCHANGED <<local, visited, requested, pc>>]_vars

\* C4 witness: a run ended by an error after it had written one blob and
\* before it reached another blob of the store.
C4_Witness ==
    /\ pc = "done"
    /\ error # None
    /\ result = "returned"
    /\ \E r \in requested :
           /\ PathExists(local, LocalFilePathForBlob(r[2]))
           /\ local[LocalFilePathForBlob(r[2])] = File(Content(r[1], r[2]))
    /\ \E c \in Containers : \E b \in DOMAIN remote[c] :
           \A v \in visited : ~(v.container = c /\ v.blob = b)

\* ------------------------------------------------------------------------
\* Speech pipeline: properties (checked under PipeSpec)
\* ------------------------------------------------------------------------

\* C5: once the network is bound, exec_net stays the binding of the first
\* load_network call, load_network is never called again, and every
\* inference call runs on that binding.
C5_ActivationLatched ==
    exec_net # NotBound =>
        /\ exec_net = firstBound
        /\ loadCalls = 1
        /\ \A k \in 1..Len(inferLog) : inferLog[k].target = firstBound

\* C5 witness: an inference call made after activate_model was last called
\* with another device than the bound one.
C5_Witness ==
    /\ exec_net # NotBound
    /\ lastRequested # exec_net.device
    /\ inferLog # <<>>
    /\ inferLog[1].target.device = firstBound.device

\* Audio as the claims describe it: a rate within 10% of 16000 Hz, and one
\* dimension or a single column.
RateWithinTenPercent(a) == a.rate \in 14400..17600

SingleChannel(a) == Len(a.shape) = 1 \/ a.shape[2] = 1

\* C6 as stated: with assert statements executed, recognize_audio on a
\* pipeline that is not activated ends, for every audio input, with the
\* precondition error naming the activation step, and has called neither the
\* network nor the decoder.
C6_AlwaysPreconditionError ==
    (ppc = "rec_end" /\ exec_net = NotBound /\ debug) =>
        /\ perror = ActivationError
        /\ inferLog = <<>>
        /\ decoderCalls = 0

\* C6 amended: recognize_audio on a pipeline that is not activated never
\* returns and calls neither the network nor the decoder; with assert
\* statements executed it ends with the precondition error naming the
\* activation step when the audio passes validation, and with the audio
\* validation error otherwise.
C6_UnactivatedFails ==
    exec_net = NotBound =>
        /\ inferLog = <<>>
        /\ decoderCalls = 0
        /\ transcription = <<>>
        /\ ppc = "rec_end" => perror # NoError
        /\ (ppc = "rec_end" /\ debug) =>
               perror = IF RateWithinTenPercent(audio) /\ SingleChannel(audio)
                        THEN ActivationError ELSE AudioError

\* C6 witness: the precondition error on a pipeline that is not activated.
C6_Witness ==
    /\ ppc = "rec_end"
    /\ exec_net = NotBound
    /\ debug
    /\ RateWithinTenPercent(audio)
    /\ SingleChannel(audio)
    /\ perror = ActivationError

\* C7: once extract_mfcc has validated the audio of a call, audio whose rate
\* is off by more than 10% or that has a second dimension other than 1 has
\* ended the call with the validation error naming 16 kHz, before any
\* inference or decoder call; audio within 10% (14400 and 17600 included)
\* with one dimension or a single column has not raised that error.
C7_MalformedAudioRejected ==
    ppc \in {"rec_probs", "rec_loop", "rec_decode", "rec_end"} =>
        IF RateWithinTenPercent(audio) /\ SingleChannel(audio)
        THEN perror # AudioError
        ELSE /\ ppc = "rec_end"
             /\ perror.type = "ValueError"
             /\ perror = AudioError
             /\ perror.khz = 16
             /\ inferLog = <<>>
             /\ decoderCalls = 0

\* C7 witness: 44100 Hz audio rejected on an activated pipeline.
C7_Witness ==
    /\ ppc = "rec_end"
    /\ exec_net # NotBound
    /\ audio.rate = 44100
    /\ perror = AudioError

\* C8: the first inference call of a recognize_audio call is fed the zero
\* state, and every later one the state the call before it returned.
C8_StateThreaded ==
    \A k \in 1..Len(inferLog) :
        inferLog[k].state_in =
            IF k = 1 THEN ZeroState ELSE inferLog[k - 1].state_out

\* C8 witness: the second recognize_audio call of a pipeline, completed with
\* three inference calls.
C8_Witness ==
    /\ calls = 2
    /\ ppc = "rec_end"
    /\ perror = NoError
    /\ Len(inferLog) = 3
    /\ inferLog[1].state_out # ZeroState

\* The orders of lifetime events the state machine allows.
LifetimeOrders ==
    {<<"Constructed", "NetworkLoaded", "Validated", "Activated">>,
     <<"Constructed", "NetworkLoaded", "Activated">>}

\* C9: the lifetime events come in the order Constructed, NetworkLoaded,
\* (Validated,) Activated; with a device whose supported layers miss a layer
\* of the network, construction ends with the error naming the missing layers
\* and the network is never bound; with device None the node check is never
\* made and construction leaves the network loaded and not bound.
C9_ConstructionFailsFast ==
    /\ \E order \in LifetimeOrders :
           /\ Len(phases) <= Len(order)
           /\ phases = SubSeq(order, 1, Len(phases))
    /\ ppc = "ctor_failed" =>
           /\ default_device # None
           /\ perror.type = "RuntimeError"
           /\ perror.layers = Layers \ supported
           /\ perror.layers # {}
    /\ (default_device # None /\ Layers \ supported # {}) =>
           /\ exec_net = NotBound
           /\ loadCalls = 0
           /\ ppc \in {"new", "load_net", "check_nodes", "ctor_failed"}
    /\ default_device = None =>
           /\ queryCalls = 0
           /\ (ppc = "idle" /\ lastRequested = None) =>
                  /\ net # None
                  /\ exec_net = NotBound
                  /\ phases = <<"Constructed", "NetworkLoaded">>

\* C9 witness: construction failed on a device that misses a layer.
C9_Witness ==
    /\ ppc = "ctor_failed"
    /\ perror.layers = {"lstm"}
    /\ net # None
    /\ exec_net = NotBound

\* Window j of an utterance of n frames: frames j-9..j+9, zero outside 1..n,
\* and all zeros for the padding windows after the last frame.
ExpectedWindow(j, n) ==
    [t \in 1..19 |-> IF j <= n /\ (j - 10 + t) \in 1..n THEN j - 10 + t ELSE 0]

\* What extract_per_frame_probs is to have done for an utterance of n frames.
ProbsContract(n) ==
    /\ perror = NoError
    /\ num_strides = n
    /\ Len(inferLog) = (n + 15) \div 16
    /\ \A k \in 1..Len(inferLog) :
           /\ Len(inferLog[k].chunk) = 16
           /\ \A m \in 1..16 :
                  inferLog[k].chunk[m] = ExpectedWindow(16 * (k - 1) + m, n)
    /\ probs = [r \in 1..(16 * Len(inferLog)) |-> IF r <= n THEN r ELSE 0]

\* C10 as stated: on an activated pipeline whose inference calls all return,
\* extract_per_frame_probs meets its contract for every N >= 0.
C10_AnyFrameCount ==
    (ppc = "rec_end" /\ exec_net # NotBound /\ nframes >= 0
        /\ perror # BackendError) => ProbsContract(nframes)

\* C10 amended: the contract is met for every N >= 1; for N = 0 no inference
\* call is made and the concatenation of no outputs raises.
C10_AtLeastOneFrame ==
    (ppc = "rec_end" /\ exec_net # NotBound /\ nframes >= 0
        /\ perror # BackendError) =>
        IF nframes >= 1
        THEN ProbsContract(nframes)
        ELSE /\ perror = ConcatenateError
             /\ inferLog = <<>>
             /\ decoderCalls = 0

\* C10 witness: an utterance of more than 32 frames done in three inference
\* calls.
C10_Witness ==
    /\ ppc = "rec_end"
    /\ exec_net # NotBound
    /\ perror = NoError
    /\ nframes > 32
    /\ Len(inferLog) = 3

====
